---- MODULE Spec2Model ----
(***************************************************************************)
(* Shakemap-to-HAZUS.py: the wx MainFrame whose "Go!" button unzips a      *)
(* shape.zip, projects the four HAZUS layers, copies the template          *)
(* geodatabase and renames it after the earthquake.                        *)
(*                                                                         *)
(* Strings are sequences of tokens (a character, or a literal the script   *)
(* names whole such as "Template_Shakemap" or ".mdb"); a file name is such *)
(* a sequence whose last token is its extension; a path is a sequence of   *)
(* file names.                                                             *)
(***************************************************************************)
EXTENDS Integers, Sequences, FiniteSets, TLC

\* ------------------------------------------------------------------ bounds

\* Presses of "Go!" in one session of the program.
MaxRuns == 2

\* ------------------------------------------------------- literals of the script

ScriptName == <<"Shakemap-to-HAZUS", ".py">>
TemplateName == <<"Template">>
ShapeName == <<"shape">>
DataName == <<"Data">>
Marker == "Template_Shakemap"
MdbExt == ".mdb"
ShpExt == ".shp"
NAD83Suffix == <<"_GCS_NAD83", ".shp">>
\* A faulty variant of HazusLayers, matching whatever the letters' case.
HazusLayersAnyCase ==
  {<<"pga">>, <<"pgv">>, <<"Pgv">>, <<"psa03">>, <<"psa10">>}

\* The list of line 143.
HazusLayers == {<<"pga">>, <<"pgv">>, <<"psa03">>, <<"psa10">>}

\* ------------------------------------------------------------- environment

\* The directory the script and its Template folder are installed in.
ToolDir == << <<"tool">> >>
\* What the directory dialog can return (an absolute path).
OutDirs == { << <<"out">> >> }
\* What the user can type into the earthquake name box.
BoxTexts ==
  { <<>>, <<"a", " ", "b">>, <<"a", "_", "b">> }

Layer(d) == [data |-> d, crs |-> "EPSG:4326"]
Plain(d) == [data |-> d, crs |-> ""]

\* The zip files on disk: namelist() order, each member's relative path and bytes.
Archives ==
  [ A1 |-> [valid |-> TRUE, members |->
              << [path |-> << <<"pga", ".shp">> >>, content |-> Layer("A1-pga")],
                 [path |-> << <<"pga", ".dbf">> >>, content |-> Plain("A1-pga-dbf")],
                 [path |-> << <<"psa03", ".shp">> >>, content |-> Layer("A1-psa03")],
                 [path |-> << <<"mi", ".shp">> >>, content |-> Layer("A1-mi")],
                 [path |-> << <<"sub">>, <<"pgv", ".shp">> >>, content |-> Layer("A1-pgv")] >>],
    A2 |-> [valid |-> TRUE, members |->
              << [path |-> << <<"mi", ".shp">> >>, content |-> Layer("A2-mi")],
                 [path |-> << <<"Pgv", ".shp">> >>, content |-> Layer("A2-Pgv")] >>],
    A0 |-> [valid |-> TRUE, members |-> << >>],
    bad |-> [valid |-> FALSE, members |-> << >>] ]

\* "" is the file picker's initial value: no file chosen.
NoFile == ""
InputFiles == DOMAIN Archives

\* The Template folder shipped beside the script: relative path -> content.
TemplateTrees ==
  { << [path |-> << <<Marker, MdbExt>> >>, content |-> Plain("tpl-db")],
       [path |-> << <<Marker, ".ldb">> >>, content |-> Plain("tpl-lock")],
       [path |-> << <<"other", MdbExt>> >>, content |-> Plain("tpl-other-db")],
       [path |-> << <<"sub">>, <<"readme", ".txt">> >>, content |-> Plain("tpl-readme")] >>,
    << [path |-> << <<"readme", ".txt">> >>, content |-> Plain("tpl-readme")] >> }

\* Directory listings come back in name order (NTFS); every name of the model, sorted.
SortedNames ==
  << <<MdbExt>>, <<"a", "_", "b", MdbExt>>,
     <<"mi", ".shp">>, <<"pga", ".dbf">>, <<"pga", ".shp">>,
     <<"pga", "_GCS_NAD83", ".shp">>, <<"Pgv", ".shp">>,
     <<"psa03", ".shp">>, <<"psa03", "_GCS_NAD83", ".shp">>,
     <<"other", MdbExt>>, <<"readme", ".txt">>, <<"sub">>,
     <<Marker, ".ldb">>, <<Marker, MdbExt>> >>

\* The injected failure of one step's file-system or geoprocessing call.
Faults == {"none", "extract", "project", "copy", "rename"}

\* ------------------------------------------------------------------- state

VARIABLES
  earthquake_name_box,  \* the text control's value
  earthquake_name,      \* self.earthquake_name
  input_file,           \* self.input_file
  output_directory,     \* self.output_directory ("" is <<>>)
  files,                \* the file system: path -> content
  dirs,                 \* the file system: the directories that exist
  cwd,                  \* the process working directory
  workspace,            \* arcpy.env.workspace
  script_abs,           \* whether the script was started by an absolute path
  run,                  \* what the last "Go!" did (history)
  nruns,                \* presses of "Go!" so far
  history               \* the presses before the last: name, directory, outcome

vars == << earthquake_name_box, earthquake_name, input_file, output_directory,
           files, dirs, cwd, workspace, script_abs, run, nruns, history >>

\* ---------------------------------------------------------------- strings

\* A faulty variant of ReplaceSpaces, its two arguments exchanged.
RECURSIVE ReplaceUnderscores(_)
ReplaceUnderscores(s) ==
  IF s = <<>> THEN <<>>
  ELSE <<IF Head(s) = "_" THEN " " ELSE Head(s)>> \o ReplaceUnderscores(Tail(s))

\* str.replace(" ", "_"), character by character.
RECURSIVE ReplaceSpaces(_)
ReplaceSpaces(s) ==
  IF s = <<>> THEN <<>>
  ELSE <<IF Head(s) = " " THEN "_" ELSE Head(s)>> \o ReplaceSpaces(Tail(s))

\* filename.replace("Template_Shakemap", name): every occurrence of the literal.
RECURSIVE ReplaceMarker(_, _)
ReplaceMarker(filename, name) ==
  IF filename = <<>> THEN <<>>
  ELSE (IF Head(filename) = Marker THEN name ELSE <<Head(filename)>>)
       \o ReplaceMarker(Tail(filename), name)

\* filename.endswith(ext)
EndsWith(filename, ext) == filename # <<>> /\ filename[Len(filename)] = ext

\* fc[:-4]: the name without its last four characters, the extension ".shp".
StripExt(fc) == SubSeq(fc, 1, Len(fc) - 1)

\* ------------------------------------------------------------------ paths

\* directory + "\\" + name + "\\" + sub, as the file system reads it: empty
\* components collapse.
JoinPath(directory, name, sub) ==
  SelectSeq(directory \o <<name, sub>>, LAMBDA c : c # <<>>)

\* "" + "\\" + "" + "\\shape" starts with two backslashes: a UNC path with no
\* share, which no file-system call accepts.
IsUNC(directory, name) == directory = <<>> /\ name = <<>>

IsPrefix(p, q) == Len(p) <= Len(q) /\ SubSeq(q, 1, Len(p)) = p

Prefixes(p) == { SubSeq(p, 1, k) : k \in 0..Len(p) }

\* os.listdir: the immediate entries of a directory, in name order.
ListDir(fs, d) ==
  SelectSeq(SortedNames,
            LAMBDA n : (d \o <<n>>) \in DOMAIN fs.files \/ (d \o <<n>>) \in fs.dirs)

WriteFile(fs, p, c) ==
  [fs EXCEPT !.files = [q \in DOMAIN fs.files \cup {p} |-> IF q = p THEN c ELSE fs.files[q]],
             !.dirs = fs.dirs \cup Prefixes(SubSeq(p, 1, Len(p) - 1))]

RemoveFile(fs, p) ==
  [fs EXCEPT !.files = [q \in DOMAIN fs.files \ {p} |-> fs.files[q]]]

Exists(fs, p) == p \in DOMAIN fs.files \/ p \in fs.dirs

\* ------------------------------------------------------- the handler's steps

\* An exception leaves the function it is raised in and every caller up to wx,
\* which prints the traceback: its last frame is the function named here.
Raise(st, fn) == [st EXCEPT !.exc = fn]

\* The same, raised by a call the environment makes fail (disk full, a locked file).
Fail(st, fn) == [st EXCEPT !.exc = fn, !.injected = TRUE]

\* self.sb.SetStatusText(...): the status bar is written and never read; what a
\* press of "Go!" shows there, one text after the other, is kept as its notes.
SetStatusText(st, kind, arg) ==
  [st EXCEPT !.notes = Append(@, [kind |-> kind, arg |-> arg])]

\* os.rename(filename, target) in the working directory; Windows refuses an
\* existing target, and renaming a file to its own name changes nothing.
OsRename(st, filename, target) ==
  LET src == st.cwd \o <<filename>>
      dst == st.cwd \o <<target>>
  IN  IF st.fault = "rename" THEN Fail(st, "rename_template")
      ELSE IF target = filename THEN st
      ELSE IF Exists(st.fs, dst) THEN Raise(st, "rename_template")
      ELSE [st EXCEPT !.fs = WriteFile(RemoveFile(st.fs, src), dst, st.fs.files[src])]

\* A faulty variant of RenameLoop, without the test of the extension.
RECURSIVE RenameLoopAnyExt(_, _)
RenameLoopAnyExt(st, names) ==
  IF names = <<>> \/ st.exc # "none" THEN st
  ELSE RenameLoopAnyExt(OsRename(st, Head(names),
                                 ReplaceMarker(Head(names), st.earthquake_name)),
                        Tail(names))

\* Lines 168-170: the loop over os.listdir(os.getcwd()).
RECURSIVE RenameLoop(_, _)
RenameLoop(st, names) ==
  IF names = <<>> \/ st.exc # "none" THEN st
  ELSE LET filename == Head(names)
       IN  IF EndsWith(filename, MdbExt)
           THEN RenameLoop(OsRename(st, filename,
                                    ReplaceMarker(filename, st.earthquake_name)),
                           Tail(names))
           ELSE RenameLoop(st, Tail(names))

rename_template(st, earthquake_dir) ==
  LET s1 == [st EXCEPT !.steps = Append(@, "rename_template"),
                       !.cwd = earthquake_dir,
                       !.listing = ListDir(st.fs, earthquake_dir)]
      s2 == RenameLoop(s1, s1.listing)
  IN  IF s2.exc # "none" THEN s2
      ELSE SetStatusText(s2, "Renamed", <<s2.earthquake_name \o <<MdbExt>> >>)

\* inspect.stack()[0][1]: the script's file name as the interpreter was given it.
ScriptFile(st) == IF st.script_abs THEN ToolDir \o <<ScriptName>> ELSE <<ScriptName>>

\* temp.replace('Shakemap-to-HAZUS.py', "Template")
ScriptDir(st) ==
  [i \in 1..Len(ScriptFile(st)) |->
     IF ScriptFile(st)[i] = ScriptName THEN TemplateName ELSE ScriptFile(st)[i]]

\* A relative path is read from the working directory.
Resolve(st, p) == IF st.script_abs THEN p ELSE st.cwd \o p

\* The files below a directory, as paths relative to it.
TreeOf(fs, d) ==
  { SubSeq(p, Len(d) + 1, Len(p)) : p \in { q \in DOMAIN fs.files : IsPrefix(d, q) } }

\* A faulty variant of CopyTree, copying into a destination that exists.
CopyTreeMerge(st, src, dst, unc) ==
  IF src \notin st.fs.dirs \/ unc THEN Raise(st, "copy_template")
  ELSE LET rels == TreeOf(st.fs, src)
       IN  [st EXCEPT !.fs =
              [files |-> [q \in DOMAIN st.fs.files \cup { dst \o r : r \in rels } |->
                            IF q \in { dst \o r : r \in rels }
                            THEN st.fs.files[src \o SubSeq(q, Len(dst) + 1, Len(q))]
                            ELSE st.fs.files[q]],
               dirs |-> st.fs.dirs \cup Prefixes(dst)]]

\* shutil.copytree(src, dst): os.listdir(src), os.makedirs(dst), then the copies.
CopyTree(st, src, dst, unc) ==
  IF src \notin st.fs.dirs THEN Raise(st, "copy_template")
  ELSE IF unc \/ Exists(st.fs, dst) THEN Raise(st, "copy_template")
  ELSE LET made == [st.fs EXCEPT !.dirs = @ \cup Prefixes(dst)]
           rels == TreeOf(st.fs, src)
           subdirs == { d \in st.fs.dirs : IsPrefix(src, d) }
       IN  IF st.fault = "copy" THEN Fail([st EXCEPT !.fs = made], "copy_template")
           ELSE [st EXCEPT !.fs =
                   [files |-> [q \in DOMAIN made.files \cup { dst \o r : r \in rels } |->
                                 IF q \in { dst \o r : r \in rels }
                                 THEN made.files[src \o SubSeq(q, Len(dst) + 1, Len(q))]
                                 ELSE made.files[q]],
                    dirs |-> made.dirs \cup
                             { dst \o SubSeq(d, Len(src) + 1, Len(d)) : d \in subdirs }]]

\* A faulty variant of copy_template, going on to the rename when the copy failed.
copy_template_swallow(st) ==
  LET s1 == [st EXCEPT !.steps = Append(@, "copy_template"),
                       !.script_dir = Resolve(st, ScriptDir(st)),
                       !.earthquake_dir =
                          JoinPath(st.output_directory, st.earthquake_name, DataName)]
      s2 == CopyTree(s1, s1.script_dir, s1.earthquake_dir,
                     IsUNC(st.output_directory, st.earthquake_name))
  IN  rename_template(IF s2.exc # "none" THEN s2
                      ELSE SetStatusText(s2, "Copied", s2.earthquake_dir),
                      s2.earthquake_dir)

copy_template(st) ==
  LET s1 == [st EXCEPT !.steps = Append(@, "copy_template"),
                       !.script_dir = Resolve(st, ScriptDir(st)),
                       !.earthquake_dir =
                          JoinPath(st.output_directory, st.earthquake_name, DataName)]
      s2 == CopyTree(s1, s1.script_dir, s1.earthquake_dir,
                     IsUNC(st.output_directory, st.earthquake_name))
  IN  IF s2.exc # "none" THEN s2
      ELSE rename_template(SetStatusText(s2, "Copied", s2.earthquake_dir),
                           s2.earthquake_dir)

\* arcpy.ListFeatureClasses(): the shapefiles of the workspace folder itself.
ListFeatureClasses(st) ==
  SelectSeq(ListDir(st.fs, st.workspace),
            LAMBDA n : EndsWith(n, ShpExt) /\ (st.workspace \o <<n>>) \in DOMAIN st.fs.files)

\* arcpy.env.overwriteOutput, which the script never sets: arcpy's default.
overwriteOutput == FALSE

\* arcpy.management.Project(fc, fc_out_name, out_sr) in the workspace: the same
\* features in EPSG:4269. An existing output is an error unless overwriteOutput.
Project(st, fc, fc_out_name) ==
  LET src == st.workspace \o <<fc>>
      dst == st.workspace \o <<fc_out_name>>
  IN  IF st.fault = "project" THEN Fail(st, "project_fcs")
      ELSE IF Exists(st.fs, dst) /\ ~overwriteOutput THEN Raise(st, "project_fcs")
      ELSE [st EXCEPT !.fs = WriteFile(st.fs, dst,
                                       [st.fs.files[src] EXCEPT !.crs = "EPSG:4269"])]

\* Lines 140-146: the loop over fcs.
RECURSIVE ProjectLoop(_, _)
ProjectLoop(st, fcs) ==
  IF fcs = <<>> \/ st.exc # "none" THEN st
  ELSE LET fc == Head(fcs)
           fc_name == StripExt(fc)
       IN  IF fc_name \in HazusLayers
           THEN LET s1 == Project(st, fc, fc_name \o NAD83Suffix)
                IN  ProjectLoop(IF s1.exc # "none" THEN s1
                                ELSE SetStatusText(s1, "Projected", <<fc_name>>),
                                Tail(fcs))
           ELSE ProjectLoop(st, Tail(fcs))

\* A faulty variant of project_fcs, calling the rename without the copy.
project_fcs_no_copy(st, path) ==
  LET s0 == [st EXCEPT !.steps = Append(@, "project_fcs"), !.workspace = path]
      s1 == [s0 EXCEPT !.fcs = ListFeatureClasses(s0)]
      s2 == ProjectLoop(s1, s1.fcs)
  IN  IF s2.exc # "none" THEN s2
      ELSE rename_template(s2, JoinPath(s2.output_directory, s2.earthquake_name,
                                        DataName))

project_fcs(st, path) ==
  LET s0 == [st EXCEPT !.steps = Append(@, "project_fcs"), !.workspace = path]
      s1 == [s0 EXCEPT !.fcs = ListFeatureClasses(s0)]
      s2 == ProjectLoop(s1, s1.fcs)
  IN  IF s2.exc # "none" THEN s2 ELSE copy_template(s2)

\* A faulty variant of ZipExtract, dropping the member's folders.
ZipExtractFlat(st, member, outpath, last) ==
  IF IsUNC(st.output_directory, st.earthquake_name) THEN Raise(st, "extract_file")
  ELSE IF st.fault = "extract" /\ last THEN Fail(st, "extract_file")
  ELSE [st EXCEPT !.fs = WriteFile(st.fs, outpath \o <<member.path[Len(member.path)]>>,
                                   member.content)]

\* z.extract(name, outpath): the member at outpath\<its path>, parents made,
\* an existing file overwritten.
ZipExtract(st, member, outpath, last) ==
  IF IsUNC(st.output_directory, st.earthquake_name) THEN Raise(st, "extract_file")
  ELSE IF st.fault = "extract" /\ last THEN Fail(st, "extract_file")
  ELSE [st EXCEPT !.fs = WriteFile(st.fs, outpath \o member.path, member.content)]

\* Lines 126-128: the loop over z.namelist().
RECURSIVE ExtractLoop(_, _)
ExtractLoop(st, members) ==
  IF members = <<>> \/ st.exc # "none" THEN st
  ELSE LET outpath == JoinPath(st.output_directory, st.earthquake_name, ShapeName)
       IN  ExtractLoop(ZipExtract([st EXCEPT !.outpath = outpath, !.outpath_bound = TRUE],
                                  Head(members), outpath, Len(members) = 1),
                       Tail(members))

extract_file(st, box) ==
  LET s1 == [st EXCEPT !.steps = Append(@, "extract_file"),
                       !.earthquake_name = ReplaceSpaces(box)]
  IN  IF s1.input_file = NoFile THEN Raise(s1, "extract_file")
      ELSE IF ~Archives[s1.input_file].valid THEN Raise(s1, "extract_file")
      ELSE LET s2 == ExtractLoop(s1, Archives[s1.input_file].members)
           IN  IF s2.exc # "none" THEN s2
               ELSE IF ~s2.outpath_bound THEN Raise(s2, "extract_file")
               ELSE project_fcs(SetStatusText(s2, "Unzipped", s2.outpath), s2.outpath)

\* ------------------------------------------------------------------ actions

InitFS(tree) ==
  [files |-> [p \in { (ToolDir \o <<TemplateName>>) \o tree[i].path : i \in 1..Len(tree) } |->
                tree[CHOOSE i \in 1..Len(tree) :
                       (ToolDir \o <<TemplateName>>) \o tree[i].path = p].content],
   dirs |-> UNION { Prefixes(d) : d \in OutDirs } \cup Prefixes(ToolDir)
            \cup UNION { Prefixes((ToolDir \o <<TemplateName>>)
                                  \o SubSeq(tree[i].path, 1, Len(tree[i].path) - 1)) :
                         i \in 1..Len(tree) }]

NoRun ==
  [n |-> 0, box |-> <<>>, input_file |-> NoFile, output_directory |-> <<>>,
   pre |-> [files |-> <<>>, dirs |-> {}], pre_cwd |-> <<>>,
   steps |-> <<>>, notes |-> <<>>, exc |-> "none", injected |-> FALSE,
   outpath |-> <<>>, fcs |-> <<>>, script_dir |-> <<>>, earthquake_dir |-> <<>>,
   listing |-> <<>>]

Init ==
  /\ earthquake_name_box = <<>>
  /\ earthquake_name = <<>>
  /\ input_file = NoFile
  /\ output_directory = <<>>
  /\ \E tree \in TemplateTrees :
       /\ files = InitFS(tree).files
       /\ dirs = InitFS(tree).dirs
  /\ cwd = ToolDir
  /\ workspace = <<>>
  /\ script_abs \in BOOLEAN
  /\ run = NoRun
  /\ nruns = 0
  /\ history = {}

\* The user edits the earthquake name box.
TypeName ==
  /\ nruns < MaxRuns
  /\ \E t \in BoxTexts : earthquake_name_box' = t
  /\ UNCHANGED << earthquake_name, input_file, output_directory, files, dirs, cwd,
                  workspace, script_abs, run, nruns, history >>

select_output_directory ==
  /\ nruns < MaxRuns
  /\ \/ \E d \in OutDirs : output_directory' = d
     \/ UNCHANGED output_directory
  /\ UNCHANGED << earthquake_name_box, earthquake_name, input_file, files, dirs, cwd,
                  workspace, script_abs, run, nruns, history >>

select_input_file ==
  /\ nruns < MaxRuns
  /\ \E path \in InputFiles : input_file' = path
  /\ UNCHANGED << earthquake_name_box, earthquake_name, output_directory, files, dirs,
                  cwd, workspace, script_abs, run, nruns, history >>

\* The state a press of "Go!" starts from.
Entry(fault) ==
  [earthquake_name |-> earthquake_name, input_file |-> input_file,
   output_directory |-> output_directory,
   fs |-> [files |-> files, dirs |-> dirs], cwd |-> cwd, workspace |-> workspace,
   script_abs |-> script_abs, fault |-> fault,
   steps |-> <<>>, notes |-> <<>>, exc |-> "none", injected |-> FALSE,
   outpath |-> <<>>, outpath_bound |-> FALSE, fcs |-> <<>>, script_dir |-> <<>>,
   earthquake_dir |-> <<>>, listing |-> <<>>]

\* The "Go!" button: extract_file and everything it calls, to the return or the
\* exception.
Go ==
  /\ nruns < MaxRuns
  /\ \E fault \in Faults :
       LET st == extract_file(Entry(fault), earthquake_name_box)
       IN  /\ earthquake_name' = st.earthquake_name
           /\ files' = st.fs.files
           /\ dirs' = st.fs.dirs
           /\ cwd' = st.cwd
           /\ workspace' = st.workspace
           /\ run' = [n |-> nruns + 1, box |-> earthquake_name_box,
                      input_file |-> input_file, output_directory |-> output_directory,
                      pre |-> [files |-> files, dirs |-> dirs], pre_cwd |-> cwd,
                      steps |-> st.steps, notes |-> st.notes, exc |-> st.exc,
                      injected |-> st.injected,
                      outpath |-> st.outpath, fcs |-> st.fcs,
                      script_dir |-> st.script_dir,
                      earthquake_dir |-> st.earthquake_dir, listing |-> st.listing]
           /\ history' = IF nruns = 0 THEN {}
                          ELSE history \cup { [name |-> earthquake_name,
                                               output_directory |-> run.output_directory,
                                               done |-> run.exc = "none"] }
  /\ nruns' = nruns + 1
  /\ UNCHANGED << earthquake_name_box, input_file, output_directory, script_abs >>

Next == TypeName \/ select_output_directory \/ select_input_file \/ Go

Spec == Init /\ [][Next]_vars

\* ------------------------------------------------ what the last press did

Ran == run.n > 0
Called(fn) == \E i \in DOMAIN run.steps : run.steps[i] = fn
Noted(kind) == \E i \in DOMAIN run.notes : run.notes[i].kind = kind
NotedWith(kind, arg) ==
  \E i \in DOMAIN run.notes : run.notes[i].kind = kind /\ run.notes[i].arg = arg

\* The pipeline's states, read off the run: a step's state is entered when its
\* function goes on to the next line after its work.
Extracted == Noted("Unzipped")
Reprojected == Called("copy_template")
TemplateCopied == Noted("Copied")
Renamed == Noted("Renamed")
Done == Ran /\ run.exc = "none"
Failed == Ran /\ run.exc # "none"

StepOrder == <<"extract_file", "project_fcs", "copy_template", "rename_template">>

\* The archive the run was given, when it could be read.
RunArchiveValid == run.input_file # NoFile /\ Archives[run.input_file].valid
RunMembers == Archives[run.input_file].members
MemberAt(rel) == CHOOSE i \in DOMAIN RunMembers : RunMembers[i].path = rel
IsMember(rel) == \E i \in DOMAIN RunMembers : RunMembers[i].path = rel

\* output_root\<name>\<sub> of the run.
RunDir(sub) == JoinPath(run.output_directory, earthquake_name, sub)

Under(fs, d) == { p \in DOMAIN fs.files : IsPrefix(d, p) }
Now == [files |-> files, dirs |-> dirs]

\* The subtree at d holds the same files with the same content as before the run.
SubtreeUnchanged(d) ==
  /\ Under(Now, d) = Under(run.pre, d)
  /\ \A p \in Under(Now, d) : files[p] = run.pre.files[p]

TemplateDir == ToolDir \o <<TemplateName>>
TemplateRels == TreeOf(Now, TemplateDir)

\* ------------------------------------------------------------------ claims

Rank(kind) ==
  CASE kind = "Unzipped" -> 1 [] kind = "Projected" -> 2
    [] kind = "Copied" -> 3 [] kind = "Renamed" -> 4 [] OTHER -> 0

HasMarker(filename) == \E i \in DOMAIN filename : filename[i] = Marker

\* A name as a path component: the empty name adds none.
Component(name) == IF name = <<>> THEN <<>> ELSE <<name>>

\* C1: in every run the steps are entered in the order extract, reproject,
\* instantiate, rename, each at most once and none skipped; a step is entered
\* only when the one before it has completed (its completion is notified and its
\* files are in place), and the run is done exactly when rename has completed.
C1_StepsInOrder ==
  Ran =>
    /\ run.steps # <<>>
    /\ Len(run.steps) <= Len(StepOrder)
    /\ \A i \in DOMAIN run.steps : run.steps[i] = StepOrder[i]
    /\ Called("project_fcs") <=> Extracted
    /\ Called("rename_template") <=> TemplateCopied
    /\ Done <=> Renamed
    /\ \A i, j \in DOMAIN run.notes :
         i < j => /\ Rank(run.notes[i].kind) <= Rank(run.notes[j].kind)
                  /\ run.notes[i].kind = run.notes[j].kind
                       => run.notes[i].kind = "Projected"
    /\ Extracted =>
         \A i \in DOMAIN RunMembers :
           (RunDir(ShapeName) \o RunMembers[i].path) \in DOMAIN files
    /\ Reprojected =>
         \A i \in DOMAIN run.fcs :
           StripExt(run.fcs[i]) \in {<<"pga">>, <<"pgv">>, <<"psa03">>, <<"psa10">>}
             => (RunDir(ShapeName) \o <<StripExt(run.fcs[i]) \o NAD83Suffix>>)
                  \in DOMAIN files
    /\ TemplateCopied =>
         /\ RunDir(DataName) \in dirs
         /\ \A r \in TemplateRels :
              Len(r) > 1 => (RunDir(DataName) \o r) \in DOMAIN files
    /\ Renamed =>
         /\ cwd = RunDir(DataName)
         /\ \A r \in TemplateRels :
              Len(r) = 1 /\ EndsWith(r[1], MdbExt) /\ HasMarker(r[1])
                => (RunDir(DataName) \o r) \notin DOMAIN files

\* A run that went through all four steps and projected a layer.
C1_Witness == Done /\ run.steps = StepOrder /\ Noted("Projected")

\* C2: when a step fails, the run ends failed in that step: the exception names
\* it, no later step is entered, no step is entered twice, neither the failing
\* step's completion nor any later one is notified, and nothing a later step
\* would do has been done.
C2_FailureAborts ==
  /\ run.injected => Failed
  /\ Failed =>
       /\ run.steps # <<>>
       /\ run.exc = run.steps[Len(run.steps)]
       /\ \A i, j \in DOMAIN run.steps : i # j => run.steps[i] # run.steps[j]
       /\ \A i \in DOMAIN run.steps : run.steps[i] = StepOrder[i]
       /\ run.exc = "extract_file" => ~Noted("Unzipped") /\ ~Noted("Projected")
       /\ run.exc \in {"extract_file", "project_fcs", "copy_template"}
            => ~Noted("Copied") /\ cwd = run.pre_cwd
       /\ ~Noted("Renamed")
       /\ run.exc = "extract_file" =>
            \A p \in DOMAIN files :
              (\E k \in DOMAIN p[Len(p)] : p[Len(p)][k] = NAD83Suffix[1])
                => p \in DOMAIN run.pre.files /\ files[p] = run.pre.files[p]
       /\ run.exc \in {"extract_file", "project_fcs"} =>
            /\ SubtreeUnchanged(RunDir(DataName))
            /\ (RunDir(DataName) \in dirs) = (RunDir(DataName) \in run.pre.dirs)

\* A run that extracted and then failed in the projection.
C2_Witness == Failed /\ run.exc = "project_fcs" /\ Extracted /\ run.injected

\* C3: the name used by a run is the typed name with every space replaced by an
\* underscore and nothing else changed; deriving it again changes nothing; and
\* it is the name in the shape path, in the Data path and in the renamed
\* database of that run.
C3_Identifier ==
  Ran =>
    /\ Len(earthquake_name) = Len(run.box)
    /\ \A i \in DOMAIN run.box :
         earthquake_name[i] = IF run.box[i] = " " THEN "_" ELSE run.box[i]
    /\ ReplaceSpaces(earthquake_name) = earthquake_name
    /\ Extracted =>
         run.outpath = run.output_directory \o Component(earthquake_name) \o <<ShapeName>>
    /\ Reprojected =>
         run.earthquake_dir =
           run.output_directory \o Component(earthquake_name) \o <<DataName>>
    /\ Renamed /\ <<Marker, MdbExt>> \in { run.listing[i] : i \in DOMAIN run.listing } =>
         (run.earthquake_dir \o <<earthquake_name \o <<MdbExt>> >>) \in DOMAIN files

\* A completed run for a typed name with a space in it.
C3_Witness ==
  /\ Done
  /\ \E i \in DOMAIN run.box : run.box[i] = " "
  /\ (run.earthquake_dir \o << <<"a", "_", "b", MdbExt>> >>) \in DOMAIN files

\* The four base names the specification recognizes.
Recognized == {<<"pga">>, <<"pgv">>, <<"psa03">>, <<"psa10">>}

BaseName(fc) == SubSeq(fc, 1, Len(fc) - 1)
ShapeFile(name) == RunDir(ShapeName) \o <<name>>
Reprojection(c) == [data |-> c.data, crs |-> "EPSG:4269"]

\* What the run's extraction left at a top-level name of shape\.
AfterExtract(name) ==
  IF IsMember(<<name>>) THEN RunMembers[MemberAt(<<name>>)].content
  ELSE run.pre.files[ShapeFile(name)]

\* C4: no layer other than pga, pgv, psa03, psa10 (exact, case-sensitive) is ever
\* projected; and when the projection step completes, every shapefile of the
\* shape folder has an output <base>_GCS_NAD83 written by this run, holding the
\* same features in EPSG:4269, exactly when its base name is one of the four;
\* any other gets no output and keeps its content, and so does every source.
C4_Reproject ==
  /\ \A i \in DOMAIN run.notes :
       run.notes[i].kind = "Projected" => run.notes[i].arg[1] \in Recognized
  /\ Reprojected =>
       /\ \A p \in Under(Now, RunDir(ShapeName)) :
            Len(p) = Len(RunDir(ShapeName)) + 1 /\ EndsWith(p[Len(p)], ShpExt)
              => \/ \E i \in DOMAIN run.fcs : run.fcs[i] = p[Len(p)]
                 \/ \E b \in Recognized : p[Len(p)] = b \o NAD83Suffix
       /\ \A i \in DOMAIN run.fcs :
            LET fc == run.fcs[i]
                out == ShapeFile(BaseName(fc) \o NAD83Suffix)
            IN  /\ ShapeFile(fc) \in DOMAIN files
                /\ files[ShapeFile(fc)] = AfterExtract(fc)
                /\ (BaseName(fc) \in Recognized)
                     <=> NotedWith("Projected", <<BaseName(fc)>>)
                /\ BaseName(fc) \in Recognized =>
                     /\ out \in DOMAIN files
                     /\ out \notin DOMAIN run.pre.files
                     /\ files[out] = Reprojection(files[ShapeFile(fc)])
                /\ BaseName(fc) \notin Recognized =>
                     /\ (out \in DOMAIN files) = (out \in DOMAIN run.pre.files)
                     /\ out \in DOMAIN files => files[out] = run.pre.files[out]

\* A completed projection over a folder holding a recognized layer, a layer named
\* as one but in another case, and another layer.
C4_Witness ==
  /\ Reprojected
  /\ \E i \in DOMAIN run.fcs : run.fcs[i] = <<"psa03", ShpExt>>
  /\ \E i \in DOMAIN run.fcs : run.fcs[i] = <<"Pgv", ShpExt>>
  /\ \E i \in DOMAIN run.fcs : run.fcs[i] = <<"mi", ShpExt>>

TemplateFile(r) == files[TemplateDir \o r]
DataFile(r) == RunDir(DataName) \o r
Matches(filename) == EndsWith(filename, MdbExt) /\ HasMarker(filename)

\* The name with its one marker replaced by the run's name.
Renaming(filename) ==
  LET k == CHOOSE k \in DOMAIN filename : filename[k] = Marker
  IN  SubSeq(filename, 1, k - 1) \o earthquake_name
        \o SubSeq(filename, k + 1, Len(filename))

\* C5: once the template is copied, rename leaves every file of the Data folder
\* that is not a top-level .mdb file with Template_Shakemap in its name under its
\* name, with its content; when rename completes, each top-level .mdb file with
\* the marker is found under the name with the marker replaced by the run's name
\* (still .mdb) and no longer under the old one, and nothing else appeared; with
\* no such file rename completes unless the environment fails it.
C5_Rename ==
  /\ TemplateCopied =>
       /\ \A r \in TemplateRels :
            ~(Len(r) = 1 /\ Matches(r[1]))
              => DataFile(r) \in DOMAIN files /\ files[DataFile(r)] = TemplateFile(r)
       /\ Cardinality(Under(Now, RunDir(DataName))) = Cardinality(TemplateRels)
  /\ Renamed =>
       \A r \in TemplateRels :
         Len(r) = 1 /\ Matches(r[1]) =>
           /\ DataFile(<<Renaming(r[1])>>) \in DOMAIN files
           /\ files[DataFile(<<Renaming(r[1])>>)] = TemplateFile(r)
           /\ EndsWith(Renaming(r[1]), MdbExt)
           /\ Renaming(r[1]) # r[1] => DataFile(r) \notin DOMAIN files
  /\ ( /\ TemplateCopied
       /\ ~run.injected
       /\ \A r \in TemplateRels : ~(Len(r) = 1 /\ Matches(r[1])) ) => Done

\* A completed rename in a folder that also holds a file with the marker and
\* another extension, and a database without the marker.
C5_Witness ==
  /\ Renamed
  /\ earthquake_name # <<>>
  /\ DataFile(<< <<Marker, ".ldb">> >>) \in DOMAIN files
  /\ DataFile(<< <<"other", MdbExt>> >>) \in DOMAIN files
  /\ DataFile(<< earthquake_name \o <<MdbExt>> >>) \in DOMAIN files

\* The Data half of C6: the template tree is there, its Template_Shakemap.mdb
\* under <name>.mdb, and no .mdb file of the folder carries the marker.
DataLayout ==
  /\ \A r \in TemplateRels :
       LET t == IF Len(r) = 1 /\ Matches(r[1]) THEN <<Renaming(r[1])>> ELSE r
       IN  DataFile(t) \in DOMAIN files /\ files[DataFile(t)] = TemplateFile(r)
  /\ DataFile(<< earthquake_name \o <<MdbExt>> >>) \in DOMAIN files
  /\ \A p \in Under(Now, RunDir(DataName)) : ~Matches(p[Len(p)])

\* Every member of the archive is in shape\ at its path.
ShapeHoldsMembers ==
  \A i \in DOMAIN RunMembers :
    /\ (RunDir(ShapeName) \o RunMembers[i].path) \in DOMAIN files
    /\ files[RunDir(ShapeName) \o RunMembers[i].path] = RunMembers[i].content

IsRecognizedLayer(path) ==
  EndsWith(path[Len(path)], ShpExt) /\ BaseName(path[Len(path)]) \in Recognized

\* The template as shipped: it holds Template_Shakemap.mdb.
TemplateShipped == << <<Marker, MdbExt>> >> \in TemplateRels

\* C6 as claimed: after a run that is done, Data\ holds the template tree with
\* the database under <name>.mdb and shape\ holds every member of the archive
\* and, for every recognized layer of the archive, a <base>_GCS_NAD83 layer.
C6_Original ==
  Done /\ TemplateShipped =>
    /\ DataLayout
    /\ ShapeHoldsMembers
    /\ \A i \in DOMAIN RunMembers :
         IsRecognizedLayer(RunMembers[i].path) =>
           \E p \in Under(Now, RunDir(ShapeName)) :
             p[Len(p)] = BaseName(RunMembers[i].path[Len(RunMembers[i].path)])
                           \o NAD83Suffix

\* C6 as amended: the same, the <base>_GCS_NAD83 layer being there for every
\* recognized layer at the top level of the archive, in shape\ itself, with the
\* member's features in EPSG:4269.
C6_Layout ==
  Done /\ TemplateShipped =>
    /\ DataLayout
    /\ ShapeHoldsMembers
    /\ \A i \in DOMAIN RunMembers :
         Len(RunMembers[i].path) = 1 /\ IsRecognizedLayer(RunMembers[i].path) =>
           LET out == ShapeFile(BaseName(RunMembers[i].path[1]) \o NAD83Suffix)
           IN  out \in DOMAIN files
               /\ files[out] = Reprojection(RunMembers[i].content)

\* A run that is done for an archive with recognized layers at its top level and
\* one in a subfolder.
C6_Witness ==
  /\ Done
  /\ TemplateShipped
  /\ \E i \in DOMAIN RunMembers :
       Len(RunMembers[i].path) = 1 /\ IsRecognizedLayer(RunMembers[i].path)
  /\ \E i \in DOMAIN RunMembers :
       Len(RunMembers[i].path) > 1 /\ IsRecognizedLayer(RunMembers[i].path)

\* An earlier press for the same name and output directory that ended done.
DoneBefore ==
  \E h \in history :
    /\ h.name = earthquake_name
    /\ h.output_directory = run.output_directory
    /\ h.done

\* C7: when the Data folder of the run exists as the template copy is called, the
\* copy fails: the run ends failed in copy_template, the folder's files are as
\* they were, and rename is not entered; so no run is done whose Data folder
\* existed before it, and none for a name and directory an earlier run was done
\* for.
C7_ExistingTarget ==
  /\ Reprojected /\ RunDir(DataName) \in run.pre.dirs =>
       /\ Failed
       /\ run.exc = "copy_template"
       /\ ~Called("rename_template")
       /\ ~TemplateCopied
       /\ SubtreeUnchanged(RunDir(DataName))
       /\ cwd = run.pre_cwd
  /\ Done => RunDir(DataName) \notin run.pre.dirs
  /\ Ran /\ DoneBefore => ~Done

\* A second run for a name whose first run was done, which reaches the copy.
C7_Witness ==
  /\ Reprojected
  /\ DoneBefore
  /\ RunDir(DataName) \in run.pre.dirs
  /\ run.exc = "copy_template"

\* C8 as claimed: for a valid archive, when the environment fails no call and
\* the destination is a path the file system accepts, the extraction completes
\* and shape\ holds exactly the members, each at its path with its content.
C8_Original ==
  ( /\ Ran
    /\ RunArchiveValid
    /\ ~run.injected
    /\ ~IsUNC(run.output_directory, earthquake_name) ) =>
      /\ Extracted
      /\ ShapeHoldsMembers
      /\ \A p \in Under(Now, RunDir(ShapeName)) :
           \/ IsMember(SubSeq(p, Len(RunDir(ShapeName)) + 1, Len(p)))
           \/ NotedWith("Projected",
                        <<SubSeq(p[Len(p)], 1, Len(p[Len(p)]) - Len(NAD83Suffix))>>)

\* C9 as claimed: a run changes no file of a shape\ or Data\ folder of its
\* workspace that existed before the run.
C9_Original ==
  Ran =>
    /\ RunDir(ShapeName) \in run.pre.dirs => SubtreeUnchanged(RunDir(ShapeName))
    /\ RunDir(DataName) \in run.pre.dirs => SubtreeUnchanged(RunDir(DataName))

\* The file system and the process as they were when the program started.
Fresh(fault) ==
  [Entry(fault) EXCEPT
     !.input_file = run.input_file,
     !.output_directory = run.output_directory,
     !.fs = [files |-> [p \in Under(Now, ToolDir) |-> files[p]],
             dirs |-> { d \in dirs : IsPrefix(ToolDir, d) }
                      \cup UNION { Prefixes(d) : d \in OutDirs }],
     !.cwd = ToolDir,
     !.workspace = <<>>]

Kinds(notes) == [i \in DOMAIN notes |-> notes[i].kind]

\* C10 as claimed: a run for a name no earlier run used reads the template from
\* the folder beside the script, and goes through the steps a first run with the
\* same inputs could go through.
C10_Original ==
  run.n >= 2 /\ (\A h \in history : h.name # earthquake_name) =>
    /\ Reprojected => run.script_dir = TemplateDir
    /\ \E fault \in Faults :
         LET first == extract_file(Fresh(fault), run.box)
         IN  /\ first.steps = run.steps
             /\ first.exc = run.exc
             /\ Kinds(first.notes) = Kinds(run.notes)

====
